---- MODULE Spec2Model ----
(***************************************************************************)
(* A model of the VISCA protocol engine of ptz-server: the per-camera      *)
(* bookkeeping of visca/camera.js (class Camera), the callbacks of class   *)
(* Command, and the inbound routing of ViscaController.onData (Spec); the   *)
(* serial port's open, close and error events (SpecTransport); the UDP     *)
(* server of visca/visca-ip.js (SpecPassthrough); and the frame and number *)
(* codecs of class Command and its helper functions (SpecLibrary); the     *)
(* armed timer under fair scheduling (SpecWake); start() and sendBroadcast *)
(* of the controller (SpecController); a chain of two cameras (SpecChain). *)
(*                                                                         *)
(* JavaScript exceptions are part of the behaviour: an operation that      *)
(* throws stops at the throw, keeps every assignment made before it, and   *)
(* hands the exception to its caller.                                      *)
(***************************************************************************)
EXTENDS Integers, Sequences, FiniteSets, TLC

\* ------------------------------------------------------------------ bounds
MaxCmds == 3          \* Command objects created and submitted
MaxTime == 2          \* clock ticks
MaxCallbacks == 1     \* user callbacks recorded
TickMs == 1000        \* milliseconds per clock tick
MaxPositive == 66000  \* the largest integer handed to i2v and si2v
MaxNegative == 33000  \* the size of the smallest (negative) one

\* --------------------------------------------------------------- constants
MSGTYPE_COMMAND == 1        \* 0x01
MSGTYPE_INQUIRY == 9        \* 0x09
MSGTYPE_CANCEL == 32        \* 0x20
MSGTYPE_ADDRESS_SET == 48   \* 0x30
MSGTYPE_NETCHANGE == 56     \* 0x38
MSGTYPE_ACK == 64           \* 0x40
MSGTYPE_COMPLETE == 80      \* 0x50
MSGTYPE_ERROR == 96         \* 0x60

ERROR_SYNTAX == 2           \* 0x02
ERROR_BUFFER_FULL == 3      \* 0x03
ERROR_CANCELLED == 4        \* 0x04
ERROR_INVALID_BUFFER == 5   \* 0x05
ERROR_COMMAND_FAILED == 65  \* 0x41

SentMaxAgeMs == 1000        \* _clearOldCommands, the sentCommands loop
BufferMaxAgeMs == 1000      \* _clearOldCommands, the cameraBuffers loop

\* the addresses a camera record can be stored at
CameraAddrs == {1, 2}
\* the serial chain of the default specification: one camera, at address 1
ChainOfOne == {1}
\* the socket numbers a reply can carry
Sockets == {0, 1, 2}
\* the payload of a COMPLETE reply: one byte (0x02, "power on") for the completion
\* of an inquiry (socket 0), none for the completion of a command (socket 1 or 2)
ReplyData(socket) == IF socket = 0 THEN <<2>> ELSE <<>>
\* the message types a caller submits; CANCEL stands for the untracked types
SubmitTypes == {MSGTYPE_COMMAND, MSGTYPE_INQUIRY, MSGTYPE_CANCEL}
\* a Command's dataParser: null, or one of the parser classes of the library
DataParsers == {"null", "v2iParser"}
ErrorCodes == {ERROR_SYNTAX, ERROR_BUFFER_FULL, ERROR_CANCELLED}

DATATYPE_INTERFACE == 0     \* 0x00
DATATYPE_CAMERA == 4        \* 0x04
DATATYPE_OPERATION == 7     \* 0x07
CAM_MEMORY == 63            \* 0x3F
CAM_ZOOM == 7               \* 0x07
DATA_ZOOMIN == 2            \* 0x02
DATA_ZOOMOUT == 3           \* 0x03
DATA_FOCUSFAR == 2          \* 0x02
DATA_FOCUSNEAR == 3         \* 0x03
OP_PAN_DRIVE == 1           \* 0x01
OP_PAN_ABSOLUTE == 2        \* 0x02
OP_PAN_RELATIVE == 3        \* 0x03

Int16Max == 32767           \* si2v, v2si
Int16Min == -32768          \* si2v
WordMax == 65535            \* 0xffff: si2v, v2si

HEADERMASK_SOURCE == 112    \* 0x70
HEADERMASK_RECIPIENT == 7   \* 0x07
HEADERMASK_BROADCAST == 8   \* 0x08

\* frames the serial parser hands to onData
IfClearReply == <<144, 1, 0, 1, 255>>     \* 90 01 00 01 FF, from camera 1
NetChangeFrame == <<144, 56, 255>>        \* 90 38 FF
AddressSetReply == <<136, 48, 2, 255>>    \* 88 30 02 FF: one camera on the chain
AckFrame == <<144, 65, 255>>              \* 90 41 FF: ACK, socket 1
CompleteFrame == <<144, 80, 2, 255>>      \* 90 50 02 FF: inquiry completion
ErrorFrame == <<144, 96, 3, 255>>         \* 90 60 03 FF: buffer full
AddressSetReplyOfTwo == <<136, 48, 3, 255>>   \* 88 30 03 FF: two cameras on the chain
AckFromTwo == <<160, 65, 255>>            \* A0 41 FF: ACK, socket 1, from camera 2
CompleteFromTwo == <<160, 80, 2, 255>>    \* A0 50 02 FF, from camera 2
ErrorFromTwo == <<160, 96, 3, 255>>       \* A0 60 03 FF, from camera 2
InboundPackets ==
    {IfClearReply, NetChangeFrame, AddressSetReply, AckFrame, CompleteFrame, ErrorFrame,
     AddressSetReplyOfTwo, AckFromTwo, CompleteFromTwo, ErrorFromTwo}

VARIABLES
    cameras,      \* ViscaController.cameras: address -> Camera
    cameraCount,  \* ViscaController.cameraCount
    commands,     \* the Command objects created so far, by identity 1..Len
    callbacks,    \* the user callbacks fired so far, in order
    wire,         \* what connection.write was given, in order
    now,          \* Date.now(), in ticks
    started,      \* ViscaController.started
    datagrams,    \* what the UDP servers have sent to their clients, in order
    call,         \* the call of a library function under study: input and result
    controller    \* ViscaController: ZOOM_SETTINGS_INT, serialport and its listeners

vars ==
    <<cameras, cameraCount, commands, callbacks, wire, now, started, datagrams, call,
      controller>>
\* the state outside the cameras and their commands
rest == <<started, datagrams, call, controller>>

\* Camera.constructor
NewCamera(index, connection) ==
    [ index |-> index,
      connection |-> connection,
      cameraBuffers |-> <<>>,
      sentCommands |-> <<>>,
      commandQueue |-> <<>>,
      inquiryQueue |-> <<>>,
      commandReady |-> TRUE,
      inquiryReady |-> TRUE,
      updatetimer |-> FALSE ]

\* A Command object as its caller hands it to sendCommand: the message type and the
\* reply parser are the caller's, all three callbacks are set, addedAt is not yet
\* stamped (-1).
NewCommand(msgType, dataParser) ==
    [ source |-> 0,
      recipient |-> -1,
      broadcast |-> TRUE,
      msgType |-> msgType,
      dataParser |-> dataParser,
      status |-> 0,
      addedAt |-> -1 ]

\* the fields of a ViscaController that start() and write() use, after construction:
\* ZOOM_SETTINGS_INT and serialport are not yet assigned. serialports counts the
\* SerialPort objects start() has opened, handlerSets the sets of four listeners it
\* has attached, written is what serialport.write was given.
NewController ==
    [ ZOOM_SETTINGS_INT |-> "undefined", serialports |-> 0, handlerSets |-> 0,
      written |-> <<>> ]

\* no library function has been called
NoCall == [fn |-> "none", kind |-> "none", arg |-> <<>>, result |-> <<>>]

\* the cameras of the chain have been constructed with new Camera(index, connection)
\* and stored in the controller's table; nothing has been sent yet
InitController ==
    /\ cameras = [k \in ChainOfOne |-> NewCamera(k, TRUE)]
    /\ cameraCount = 0
    /\ commands = <<>>
    /\ callbacks = <<>>
    /\ wire = <<>>
    /\ now = 0
    /\ started = FALSE
    /\ controller = NewController
    /\ datagrams = <<>>

Init == InitController /\ call = NoCall

\* ------------------------------------------------- the context of one call
\* What a method of camera k reads and writes while it runs; threw is the
\* exception that ended it ("none" while it is still running).
Ctx(k) ==
    [ k |-> k, cam |-> cameras[k], cmds |-> commands, callbacks |-> callbacks,
      wire |-> wire, threw |-> "none" ]

Throw(ctx, e) == [ctx EXCEPT !.threw = e]

Fire(ctx, id, cb, arg) ==
    [ctx EXCEPT !.callbacks = Append(@, [cmd |-> id, cb |-> cb, arg |-> arg])]

\* Array.prototype.splice(0, 1): the removed elements, as an Array, and what is left
Splice01(s) ==
    IF s = <<>> THEN [removed |-> <<>>, rest |-> <<>>]
    ELSE [removed |-> <<Head(s)>>, rest |-> Tail(s)]

\* ------------------------------------------------------ Command callbacks
\* Command.ack
CommandAck(ctx, id) ==
    Fire([ctx EXCEPT !.cmds[id].status = MSGTYPE_ACK], id, "onAck", <<>>)

\* Command.error: takes no parameter, and calls onError with no argument
CommandError(ctx, id) ==
    Fire([ctx EXCEPT !.cmds[id].status = MSGTYPE_ERROR], id, "onError", <<>>)

\* Command.complete(data): data is the reply's payload, never null here. A parser of
\* the library is a class with a static parse: calling the class itself throws.
CommandComplete(ctx, id, data) ==
    LET c1 == [ctx EXCEPT !.cmds[id].status = MSGTYPE_COMPLETE]
    IN  IF c1.cmds[id].dataParser # "null" THEN Throw(c1, "TypeError")
        ELSE IF Len(data) = 0 THEN Fire(c1, id, "onComplete", <<>>)
        ELSE Fire(c1, id, "onComplete", data)

\* --------------------------------------------------------------- Camera
AgeMs(ctx, id) == (now - ctx.cmds[id].addedAt) * TickMs

RECURSIVE DropOldSent(_, _)
\* the while loop of _clearOldCommands
DropOldSent(ctx, s) ==
    IF s = <<>> THEN s
    ELSE IF AgeMs(ctx, Head(s)) < SentMaxAgeMs THEN s
    ELSE DropOldSent(ctx, Tail(s))

RECURSIVE DropHeads(_, _)
\* n times sentCommands.splice(0, 1)
DropHeads(s, n) == IF n = 0 \/ s = <<>> THEN s ELSE DropHeads(Tail(s), n - 1)

\* Camera._clearOldCommands
ClearOldCommands(ctx) ==
    LET buf == ctx.cam.cameraBuffers
        kept == DropOldSent(ctx, ctx.cam.sentCommands)
        oldKeys == {key \in DOMAIN buf : AgeMs(ctx, buf[key]) > BufferMaxAgeMs}
    IN  [ctx EXCEPT !.cam.sentCommands = DropHeads(kept, Cardinality(oldKeys))]

\* Queued with a command held back also while an ACK is outstanding
QueuedWhileAwaitingAck(cam, msgType) ==
    \/ msgType = MSGTYPE_INQUIRY /\ ~cam.inquiryReady
    \/ msgType = MSGTYPE_COMMAND /\ (~cam.commandReady \/ cam.sentCommands # <<>>)

\* Queued with queued set in the COMMAND branch only
QueuedCommandsOnly(cam, msgType) == msgType = MSGTYPE_COMMAND /\ ~cam.commandReady

\* the branch of sendCommand that sets queued
Queued(cam, msgType) ==
    \/ msgType = MSGTYPE_INQUIRY /\ ~cam.inquiryReady
    \/ msgType = MSGTYPE_COMMAND /\ ~cam.commandReady

\* this.connection.write(packet)
ConnectionWrite(ctx, id) ==
    IF ~ctx.cam.connection THEN Throw(ctx, "TypeError")
    ELSE [ctx EXCEPT !.wire = Append(@, [cam |-> ctx.k, cmd |-> id])]

RECURSIVE SendCommand(_, _)
RECURSIVE Update(_)
RECURSIVE ProcessQueue(_)

\* Camera.sendCommand(command). command is a Command ([kind |-> "Command", id]) or
\* the Array that splice returned ([kind |-> "Array", items]), as _processQueue
\* passes it: an Array has no msgType and no toPacket.
SendCommand(ctx, command) ==
    IF command.kind = "Array" THEN Throw(ctx, "TypeError")
    ELSE
      LET id == command.id
          c0 == [ctx EXCEPT !.cmds[id].source = 0,
                            !.cmds[id].recipient = ctx.cam.index,
                            !.cmds[id].broadcast = FALSE,
                            !.cmds[id].addedAt = now]
          mt == c0.cmds[id].msgType
          queued == Queued(c0.cam, mt)
          c1 == IF mt = MSGTYPE_INQUIRY THEN
                    IF c0.cam.inquiryReady
                    THEN [c0 EXCEPT !.cam.cameraBuffers = (0 :> id) @@ @]
                    ELSE [c0 EXCEPT !.cam.inquiryQueue = Append(@, id)]
                ELSE IF mt = MSGTYPE_COMMAND THEN
                    IF c0.cam.commandReady
                    THEN [c0 EXCEPT !.cam.sentCommands = Append(@, id)]
                    ELSE [c0 EXCEPT !.cam.commandQueue = Append(@, id)]
                ELSE c0
          c2 == IF queued THEN c1 ELSE ConnectionWrite(c1, id)
      IN  IF c2.threw # "none" THEN c2 ELSE Update(c2)

\* Camera._processQueue
ProcessQueue(ctx) ==
    LET c1 == IF ctx.cam.commandReady /\ Len(ctx.cam.commandQueue) > 0
              THEN LET sp == Splice01(ctx.cam.commandQueue)
                   IN  SendCommand([ctx EXCEPT !.cam.commandQueue = sp.rest],
                                   [kind |-> "Array", items |-> sp.removed])
              ELSE ctx
    IN  IF c1.threw # "none" THEN c1
        ELSE IF c1.cam.inquiryReady /\ Len(c1.cam.inquiryQueue) > 0
        THEN LET sp == Splice01(c1.cam.inquiryQueue)
             IN  SendCommand([c1 EXCEPT !.cam.inquiryQueue = sp.rest],
                             [kind |-> "Array", items |-> sp.removed])
        ELSE c1

\* _update without the two assignments to the readiness flags
UpdateKeepingFlags(ctx) ==
    LET c1 == ClearOldCommands(ctx)
        c3 == ProcessQueue(c1)
    IN  IF c3.threw # "none" THEN c3
        ELSE IF Len(c3.cam.inquiryQueue) > 0 \/ Len(c3.cam.commandQueue) > 0
        THEN [c3 EXCEPT !.cam.updatetimer = TRUE]
        ELSE c3

\* Camera._update
Update(ctx) ==
    LET c1 == ClearOldCommands(ctx)
        buf == c1.cam.cameraBuffers
        c2 == [c1 EXCEPT !.cam.commandReady = ~(1 \in DOMAIN buf \/ 2 \in DOMAIN buf),
                         !.cam.inquiryReady = ~(0 \in DOMAIN buf)]
        c3 == ProcessQueue(c2)
    IN  IF c3.threw # "none" THEN c3
        ELSE IF Len(c3.cam.inquiryQueue) > 0 \/ Len(c3.cam.commandQueue) > 0
        THEN [c3 EXCEPT !.cam.updatetimer = TRUE]
        ELSE c3

\* ack that binds the head of sentCommands to the slot and leaves it in sentCommands
CameraAckKeepingHead(ctx, v) ==
    IF ctx.cam.sentCommands = <<>> THEN Throw(ctx, "TypeError")
    ELSE [ctx EXCEPT !.cam.cameraBuffers = (v.socket :> Head(ctx.cam.sentCommands)) @@ @]

\* ack with the head of sentCommands itself, not the Array around it, as cmd: its
\* onAck fires and it is stored in the slot the reply names
CameraAckUnwrapped(ctx, v) ==
    IF ctx.cam.sentCommands = <<>> THEN Throw(ctx, "TypeError")
    ELSE LET sp == Splice01(ctx.cam.sentCommands)
             c1 == CommandAck([ctx EXCEPT !.cam.sentCommands = sp.rest], sp.removed[1])
         IN  Update([c1 EXCEPT !.cam.cameraBuffers = (v.socket :> sp.removed[1]) @@ @])

\* Camera.ack(viscaCommand): cmd is the Array that splice returned, and an Array has
\* no method ack, so the call throws before the slot is written
CameraAck(ctx, v) ==
    LET sp == Splice01(ctx.cam.sentCommands)
    IN  Throw([ctx EXCEPT !.cam.sentCommands = sp.rest], "TypeError")

\* Camera.complete(viscaCommand): del is not defined anywhere, so the statement
\* after the callback throws and the slot keeps its command
CameraComplete(ctx, v) ==
    IF v.socket \notin DOMAIN ctx.cam.cameraBuffers THEN Throw(ctx, "TypeError")
    ELSE LET c1 == CommandComplete(ctx, ctx.cam.cameraBuffers[v.socket], v.data)
         IN  IF c1.threw # "none" THEN c1 ELSE Throw(c1, "ReferenceError")

\* Camera.error(viscaCommand)
CameraError(ctx, v) ==
    IF v.socket \notin DOMAIN ctx.cam.cameraBuffers THEN Throw(ctx, "TypeError")
    ELSE LET c1 == CommandError(ctx, ctx.cam.cameraBuffers[v.socket])
         IN  IF c1.threw # "none" THEN c1 ELSE Throw(c1, "ReferenceError")

\* Camera._clear
CameraClear(cam) == [cam EXCEPT !.cameraBuffers = <<>>, !.sentCommands = <<>>]

\* ---------------------------------------------------------------- actions
\* the state after a method of camera k has run in context r; what it threw goes to
\* its caller and is no part of the state
Store(k, r) ==
    /\ cameras' = [cameras EXCEPT ![k] = r.cam]
    /\ commands' = r.cmds
    /\ callbacks' = r.callbacks
    /\ wire' = r.wire
    /\ UNCHANGED <<cameraCount, now, rest>>

\* camera.sendCommand(command) of camera k for a Command the caller has just made
SubmitResult(k, msgType, dataParser) ==
    LET id == Len(commands) + 1
        ctx == [Ctx(k) EXCEPT !.cmds = Append(@, NewCommand(msgType, dataParser))]
    IN  SendCommand(ctx, [kind |-> "Command", id |-> id])

\* a caller creates a Command and submits it
Submit(k, msgType, dataParser) ==
    /\ k \in DOMAIN cameras
    /\ Len(commands) < MaxCmds
    /\ Store(k, SubmitResult(k, msgType, dataParser))

\* camera.ack(v) for an ACK reply on the given socket
Ack(k, socket) ==
    /\ k \in DOMAIN cameras
    /\ Store(k, CameraAck(Ctx(k), [socket |-> socket, data |-> <<>>]))

\* camera.complete(v) for a COMPLETE reply on the given socket
Complete(k, socket, data) ==
    /\ k \in DOMAIN cameras
    /\ Len(callbacks) < MaxCallbacks
    /\ Store(k, CameraComplete(Ctx(k), [socket |-> socket, data |-> data]))

\* camera.error(v) for an ERROR reply on the given socket
Error(k, socket, code) ==
    /\ k \in DOMAIN cameras
    /\ Len(callbacks) < MaxCallbacks
    /\ Store(k, CameraError(Ctx(k), [socket |-> socket, data |-> <<code>>]))

\* camera._clear()
Clear(k) ==
    /\ k \in DOMAIN cameras
    /\ cameras' = [cameras EXCEPT ![k] = CameraClear(@)]
    /\ UNCHANGED <<cameraCount, commands, callbacks, wire, now, rest>>

\* the 20 ms timer armed by _update fires: setTimeout was given this._update
\* unbound, so it runs with the Timeout object as this and throws at once
UpdateTimer(k) ==
    /\ k \in DOMAIN cameras
    /\ cameras[k].updatetimer
    /\ cameras' = [cameras EXCEPT ![k].updatetimer = FALSE]
    /\ UNCHANGED <<cameraCount, commands, callbacks, wire, now, rest>>

\* ------------------------------------------------------------ controller
\* x & mask, for a mask of adjacent bits: lo is its lowest bit's value, n its size
BitField(x, lo, n) == ((x \div lo) % n) * lo

\* Command._parsePacket(packet): the fields it has set when it stops. Its last
\* statement reads data, a name that is declared nowhere (the payload is this.data),
\* so the call always ends in a ReferenceError.
ParsePacket(packet) ==
    LET header == packet[1]
        qq == packet[2]
        exact == qq \in {MSGTYPE_COMMAND, MSGTYPE_INQUIRY, MSGTYPE_ADDRESS_SET,
                         MSGTYPE_NETCHANGE}
    IN  [ source |-> BitField(header, 16, 8) \div 16,
          recipient |-> BitField(header, 1, 8),
          broadcast |-> (BitField(header, 8, 2) \div 8) = 1,
          msgType |-> IF exact THEN qq ELSE BitField(qq, 16, 16),
          socket |-> IF exact THEN 0 ELSE BitField(qq, 1, 16),
          data |-> SubSeq(packet, 3, Len(packet) - 1),
          dataType |-> 0,      \* as the constructor set it: the assignment never runs
          threw |-> "ReferenceError" ]

\* Command.fromPacket(packet)
FromPacket(packet) == ParsePacket(packet)

\* what a handler of the controller reads and writes while it runs
ControllerCtx ==
    [ cameras |-> cameras, cameraCount |-> cameraCount, cmds |-> commands,
      callbacks |-> callbacks, wire |-> wire, threw |-> "none" ]

\* a dispatch that hands the reply to every camera of the chain, whatever its source
DispatchToAll(st, v) ==
    LET One(s, k) ==
            IF k \notin DOMAIN s.cameras THEN Throw(s, "TypeError")
            ELSE
              LET ctx == [ k |-> k, cam |-> s.cameras[k], cmds |-> s.cmds,
                           callbacks |-> s.callbacks, wire |-> s.wire, threw |-> "none" ]
                  r == IF v.msgType = MSGTYPE_ACK THEN CameraAck(ctx, v)
                       ELSE IF v.msgType = MSGTYPE_COMPLETE THEN CameraComplete(ctx, v)
                       ELSE CameraError(ctx, v)
              IN  [s EXCEPT !.cameras[k] = r.cam, !.cmds = r.cmds,
                            !.callbacks = r.callbacks, !.wire = r.wire, !.threw = r.threw]
    IN  One([One(st, 1) EXCEPT !.threw = "none"], 2)

\* camera.ack(v), camera.complete(v) or camera.error(v) on cameras[v.source], which
\* is undefined when the table has no such address
Dispatch(st, v) ==
    IF v.source \notin DOMAIN st.cameras THEN Throw(st, "TypeError")
    ELSE
      LET ctx == [ k |-> v.source, cam |-> st.cameras[v.source], cmds |-> st.cmds,
                   callbacks |-> st.callbacks, wire |-> st.wire, threw |-> "none" ]
          r == IF v.msgType = MSGTYPE_ACK THEN CameraAck(ctx, v)
               ELSE IF v.msgType = MSGTYPE_COMPLETE THEN CameraComplete(ctx, v)
               ELSE CameraError(ctx, v)
      IN  [st EXCEPT !.cameras[v.source] = r.cam, !.cmds = r.cmds,
                     !.callbacks = r.callbacks, !.wire = r.wire, !.threw = r.threw]

\* ViscaController.inquireAll(): the body is empty
InquireAll(st) == st

\* the MSGTYPE_ADDRESS_SET case of onData for the parsed reply v: the table is made
\* anew with new Camera(), which gets neither index nor connection, and inquireAll
\* is called; nothing is sent
OnAddressSet(st, v) ==
    InquireAll([st EXCEPT !.cameraCount = v.data[1] - 1,
                          !.cameras = [i \in 1..(v.data[1] - 1) |-> NewCamera(0, FALSE)]])

\* ViscaController.onData(packet). (!v.source in this.cameras) asks for the key
\* "true" or "false", which the table never has, so no camera is created.
OnDataResult(packet) ==
    LET v == FromPacket(packet)
        st == ControllerCtx
    IN  IF v.threw # "none" THEN Throw(st, v.threw)
        ELSE IF v.msgType = MSGTYPE_COMMAND THEN
            \* cam.clear(): a Camera has _clear, and no method clear
            IF DOMAIN st.cameras = {} THEN st ELSE Throw(st, "TypeError")
        ELSE IF v.msgType = MSGTYPE_NETCHANGE THEN
            \* this.cmdAddressSet(): the controller has no such method
            Throw(st, "TypeError")
        ELSE IF v.msgType = MSGTYPE_ADDRESS_SET THEN OnAddressSet(st, v)
        ELSE IF v.msgType \in {MSGTYPE_ACK, MSGTYPE_COMPLETE, MSGTYPE_ERROR} THEN
            Dispatch(st, v)
        ELSE st

\* the serial parser delivers a frame: controller.onData(packet)
OnData(packet) ==
    LET r == OnDataResult(packet)
    IN  /\ cameras' = r.cameras
        /\ cameraCount' = r.cameraCount
        /\ commands' = r.cmds
        /\ callbacks' = r.callbacks
        /\ wire' = r.wire
        /\ UNCHANGED <<now, rest>>

\* what onClose(e) and onError(e) leave behind: they log e and clear the flag; no
\* camera and no command is touched
TransportDown ==
    [ started |-> FALSE, cameras |-> cameras, cmds |-> commands, callbacks |-> callbacks ]

\* ViscaController.onOpen: the serial port reports that it is open
OnOpen ==
    /\ started' = TRUE
    /\ UNCHANGED <<cameras, cameraCount, commands, callbacks, wire, now, datagrams, call, controller>>

\* ViscaController.onClose(e): the serial port reports that it has closed
OnClose ==
    LET r == TransportDown
    IN  /\ started' = r.started
        /\ cameras' = r.cameras
        /\ commands' = r.cmds
        /\ callbacks' = r.callbacks
        /\ UNCHANGED <<cameraCount, wire, now, datagrams, call, controller>>

\* ViscaController.onError(e): the serial port reports an error
OnError ==
    LET r == TransportDown
    IN  /\ started' = r.started
        /\ cameras' = r.cameras
        /\ commands' = r.cmds
        /\ callbacks' = r.callbacks
        /\ UNCHANGED <<cameraCount, wire, now, datagrams, call, controller>>

\* ------------------------------------------------ functions of the library
RECURSIVE BitAnd(_, _)
\* a & b, for a and b not negative
BitAnd(a, b) ==
    IF a = 0 \/ b = 0 THEN 0
    ELSE (IF a % 2 = 1 /\ b % 2 = 1 THEN 1 ELSE 0) + 2 * BitAnd(a \div 2, b \div 2)

RECURSIVE BitOr(_, _)
\* a | b, for a and b not negative
BitOr(a, b) ==
    IF a = 0 THEN b
    ELSE IF b = 0 THEN a
    ELSE (IF a % 2 = 1 \/ b % 2 = 1 THEN 1 ELSE 0) + 2 * BitOr(a \div 2, b \div 2)

\* Buffer.from(array): every element is stored as a byte
BufferFrom(array) == [i \in 1..Len(array) |-> array[i] % 256]

\* i2v that stores the two bytes of the word whole, without splitting them
I2vWholeBytes(value) ==
    BufferFrom(<<0, BitField(value, 256, 256) \div 256, 0, BitField(value, 1, 256)>>)

\* i2v(value). & works on the two's complement of value, so the bits of a negative
\* value are those of value modulo 2^16 here; BitField takes them with floored
\* division.
I2v(value) ==
    LET ms == BitField(value, 256, 256) \div 256
        ls == BitField(value, 1, 256)
        p == BitField(ms, 16, 16) \div 16
        r == BitField(ls, 16, 16) \div 16
        q == BitField(ms, 1, 16)
        s == BitField(ls, 1, 16)
    IN  BufferFrom(<<p, q, r, s>>)

\* v2i that drops the high byte
V2iLowByte(data) ==
    LET d == IF Len(data) = 2 THEN <<0, 0>> \o data ELSE data
    IN  BitOr(d[3] * 16, BitField(d[4], 1, 16))

\* v2i(data), for data of bytes
V2i(data) ==
    LET d == IF Len(data) = 2 THEN <<0, 0>> \o data ELSE data
        ls == BitOr(d[3] * 16, BitField(d[4], 1, 16))
        ms == BitOr(d[1] * 16, BitField(d[2], 1, 16))
    IN  BitOr(ms * 256, ls)

\* si2v(value)
Si2v(value) ==
    LET v1 == IF value > Int16Max THEN Int16Max ELSE value
        v2 == IF v1 < Int16Min THEN Int16Min ELSE v1
        v3 == IF v2 < 0 THEN WordMax + v2 + 1 ELSE v2
    IN  I2v(v3)

\* v2si(data)
V2si(data) ==
    LET d == IF Len(data) = 2 THEN <<0, 0>> \o data ELSE data
        value == V2i(d)
    IN  IF value > Int16Max THEN value - WordMax - 1 ELSE value

\* Command.header(): the header byte, and the broadcast flag it leaves on the
\* command. The recipient is masked with 0x111 (273, bits 0, 4 and 8), of which a
\* negative recipient has all three.
Header(c) ==
    LET broadcast == IF c.recipient > -1 THEN FALSE ELSE c.broadcast
    IN  [ broadcast |-> broadcast,
          header |-> IF broadcast THEN 136
                     ELSE BitOr(BitOr(128, c.source * 16), BitAnd(c.recipient % 512, 273)) ]

\* Command.toPacket()
ToPacket(c) ==
    LET header == Header(c).header
        qq == BitOr(c.msgType, c.socket)
        rr == c.dataType
    IN  IF rr > 0 THEN BufferFrom(<<header, qq, rr>> \o c.data \o <<255>>)
        ELSE BufferFrom(<<header, qq>> \o c.data \o <<255>>)

\* the defaults of Command._mergeDefaults (the callbacks, all null, are left out)
Defaults ==
    [ source |-> 0, recipient |-> -1, broadcast |-> TRUE, msgType |-> MSGTYPE_COMMAND,
      socket |-> 0, dataType |-> 0, data |-> <<>>, dataParser |-> "null" ]

\* _mergeDefaults with every key of defaults taken from opts where opts has it
MergeDefaultsCopying(opts) ==
    LET o1 == IF "broadcast" \in DOMAIN opts /\ "recipient" \in DOMAIN opts /\ opts.broadcast
              THEN [opts EXCEPT !.recipient = -1] ELSE opts
    IN  [key \in DOMAIN Defaults |-> IF key \in DOMAIN o1 THEN o1[key] ELSE Defaults[key]]

\* Command._mergeDefaults(opts): the loop is for (let key in Object.keys(defaults)),
\* which runs over the indexes "0", "1", ... of the array of keys, so it copies
\* opts["0"], ... (undefined) and no option: what comes back is defaults as it was
MergeDefaults(opts) == Defaults

\* new Command(opts): the fields that go into the frame, and the reply parser
CommandNew(opts) ==
    LET o == MergeDefaults(opts)
    IN  [ source |-> o.source % 8,
          recipient |-> o.recipient,
          broadcast |-> (o.broadcast = TRUE),
          msgType |-> o.msgType % 256,
          socket |-> o.socket % 8,
          dataType |-> o.dataType,
          data |-> o.data,
          dataParser |-> o.dataParser ]

\* Command.cmd(recipient, dataType, data)
CommandCmd(recipient, dataType, data) ==
    CommandNew([msgType |-> MSGTYPE_COMMAND, dataType |-> dataType,
                recipient |-> recipient, data |-> data])

\* Command.addressSet()
CommandAddressSet == CommandNew([msgType |-> MSGTYPE_ADDRESS_SET, data |-> <<1>>])

\* Command.cancel(recipient, socket)
CommandCancel(recipient, socket) ==
    CommandNew([msgType |-> BitOr(MSGTYPE_CANCEL, socket), recipient |-> recipient])

\* Command.cmdInterfaceClearAll(recipient)
CmdInterfaceClearAll(recipient) == CommandCmd(recipient, DATATYPE_INTERFACE, <<0, 1>>)

\* Command.cmdCamera(recipient, data)
CmdCamera(recipient, data) == CommandCmd(recipient, DATATYPE_CAMERA, data)

\* Command.cmdOp(recipient, data)
CmdOp(recipient, data) == CommandCmd(recipient, DATATYPE_OPERATION, data)

\* Command.cmdCameraPresetReset(device, preset)
CmdCameraPresetReset(device, preset) == CmdCamera(device, <<CAM_MEMORY, 0, preset>>)

\* Command.cmdCameraPresetSet(device, preset)
CmdCameraPresetSet(device, preset) == CmdCamera(device, <<CAM_MEMORY, 1, preset>>)

\* Command.cmdCameraPresetRecall(device, preset)
CmdCameraPresetRecall(device, preset) == CmdCamera(device, <<CAM_MEMORY, 2, preset>>)

\* Command.cmdCameraPanTilt(device, xspeed, yspeed, xmode, ymode)
CmdCameraPanTilt(device, xspeed, yspeed, xmode, ymode) ==
    CmdOp(device, <<OP_PAN_DRIVE, xspeed, yspeed, xmode, ymode>>)

\* Command.cmdCameraPanTiltDirect(device, xspeed, yspeed, x, y, relative)
CmdCameraPanTiltDirect(device, xspeed, yspeed, x, y, relative) ==
    LET absrel == IF relative THEN OP_PAN_RELATIVE ELSE OP_PAN_ABSOLUTE
    IN  CmdOp(device, <<absrel, xspeed, yspeed>> \o Si2v(x) \o Si2v(y))

\* Command.cmdCameraZoom(device, offinout, speed): with a speed the direction is
\* shifted by 8 bits, out of the byte that Buffer.from keeps of data
CmdCameraZoom(device, offinout, speed) ==
    LET data == IF speed > -1 /\ offinout # 0 THEN offinout * 256 + BitAnd(speed, 7)
                ELSE offinout
    IN  CmdCamera(device, <<CAM_ZOOM, data>>)

\* Command.cmdCameraFocus(device, stopfarnear, speed): the subcommand begins with
\* CAM_ZOOM here too
CmdCameraFocus(device, stopfarnear, speed) ==
    LET data == IF speed > -1 /\ stopfarnear # 0 THEN stopfarnear * 256 + BitAnd(speed, 7)
                ELSE stopfarnear
    IN  CmdCamera(device, <<CAM_ZOOM, data>>)

\* the step builders of zoom and focus, and the requests made of them: speed -1
\* asks for the camera's default speed
StepBuilders ==
    { "cmdCameraZoomStop", "cmdCameraZoomIn", "cmdCameraZoomOut",
      "cmdCameraFocusStop", "cmdCameraFocusFar", "cmdCameraFocusNear" }
StepInputs == [ builder : StepBuilders, device : {1}, speed : -1..7 ]

\* the Command the step builder named in input i returns
StepBuild(i) ==
    IF i.builder = "cmdCameraZoomStop" THEN CmdCameraZoom(i.device, 0, -1)
    ELSE IF i.builder = "cmdCameraZoomIn" THEN CmdCameraZoom(i.device, DATA_ZOOMIN, i.speed)
    ELSE IF i.builder = "cmdCameraZoomOut" THEN CmdCameraZoom(i.device, DATA_ZOOMOUT, i.speed)
    ELSE IF i.builder = "cmdCameraFocusStop" THEN CmdCameraFocus(i.device, 0, -1)
    ELSE IF i.builder = "cmdCameraFocusFar"
         THEN CmdCameraFocus(i.device, DATA_FOCUSFAR, i.speed)
    ELSE CmdCameraFocus(i.device, DATA_FOCUSNEAR, i.speed)

\* the builders called, and the values given for their numeric arguments
Builders ==
    { "cmdCameraPresetReset", "cmdCameraPresetSet", "cmdCameraPresetRecall",
      "cmdCameraPanTilt", "cmdCameraPanTiltDirect" }
ArgValues == {-1, 0, 1, 3, 17, 18, 19, 255}
BuilderInputs ==
    [ builder : Builders, device : {1}, a : ArgValues, b : ArgValues, c : ArgValues,
      d : ArgValues, relative : BOOLEAN ]

\* the Command the builder named in input i returns for the arguments of i
Build(i) ==
    IF i.builder = "cmdCameraPresetReset" THEN CmdCameraPresetReset(i.device, i.a)
    ELSE IF i.builder = "cmdCameraPresetSet" THEN CmdCameraPresetSet(i.device, i.a)
    ELSE IF i.builder = "cmdCameraPresetRecall" THEN CmdCameraPresetRecall(i.device, i.a)
    ELSE IF i.builder = "cmdCameraPanTilt"
         THEN CmdCameraPanTilt(i.device, i.a, i.b, i.c, i.d)
    ELSE CmdCameraPanTiltDirect(i.device, i.a, i.b, i.c, i.d, i.relative)

\* the integers handed to i2v and si2v
IntInputs == (0 - MaxNegative)..MaxPositive

\* the Command objects handed to header and toPacket: a recipient of -1 for a
\* broadcast, an interface (0x00) or camera (0x04) datatype, up to two payload bytes
CommandInputs ==
    [ source : 0..7, recipient : -1..7, broadcast : BOOLEAN,
      msgType : {MSGTYPE_COMMAND, MSGTYPE_INQUIRY, MSGTYPE_CANCEL, MSGTYPE_ADDRESS_SET},
      socket : {0, 1}, dataType : {0, 4}, data : {<<>>, <<1>>, <<0, 1>>} ]

\* the options a caller hands to new Command(opts): any of these keys, with a value
\* other than the default among the values of each
OptKeys == {"recipient", "msgType", "socket", "dataType", "data", "dataParser"}
OptValues ==
    [ recipient : {-1, 2}, msgType : {MSGTYPE_COMMAND, MSGTYPE_INQUIRY}, socket : {0, 1},
      dataType : {0, DATATYPE_CAMERA}, data : {<<>>, <<0, 2>>},
      dataParser : {"null", "v2iParser"} ]

\* a caller is about to hand arg to a function of the library
Pending(kind, arg) == [fn |-> "none", kind |-> kind, arg |-> arg, result |-> <<>>]

\* i2v(u) and v2i of its bytes
I2vCall ==
    /\ call.fn = "none" /\ call.kind = "int"
    /\ call' = [call EXCEPT !.fn = "i2v",
                            !.result = [bytes |-> I2v(call.arg), back |-> V2i(I2v(call.arg))]]
    /\ UNCHANGED <<cameras, cameraCount, commands, callbacks, wire, now, started, datagrams, controller>>

\* si2v(s) and v2si of its bytes
Si2vCall ==
    /\ call.fn = "none" /\ call.kind = "int"
    /\ call' = [call EXCEPT !.fn = "si2v",
                            !.result = [bytes |-> Si2v(call.arg), back |-> V2si(Si2v(call.arg))]]
    /\ UNCHANGED <<cameras, cameraCount, commands, callbacks, wire, now, started, datagrams, controller>>

\* c.header()
HeaderCall ==
    /\ call.fn = "none" /\ call.kind = "Command"
    /\ call' = [call EXCEPT !.fn = "header", !.result = Header(call.arg)]
    /\ UNCHANGED <<cameras, cameraCount, commands, callbacks, wire, now, started, datagrams, controller>>

\* Command.fromPacket(c.toPacket())
ToPacketCall ==
    /\ call.fn = "none" /\ call.kind = "Command"
    /\ call' = [call EXCEPT !.fn = "toPacket",
                            !.result = [packet |-> ToPacket(call.arg),
                                        parsed |-> FromPacket(ToPacket(call.arg))]]
    /\ UNCHANGED <<cameras, cameraCount, commands, callbacks, wire, now, started, datagrams, controller>>

\* a builder is called and the Command it returns is serialised
BuilderCall ==
    /\ call.fn = "none" /\ call.kind = "builder"
    /\ call' = [call EXCEPT !.fn = "builder",
                            !.result = [command |-> Build(call.arg),
                                        packet |-> ToPacket(Build(call.arg))]]
    /\ UNCHANGED <<cameras, cameraCount, commands, callbacks, wire, now, started, datagrams, controller>>

\* new Command(opts)
ConstructorCall ==
    /\ call.fn = "none" /\ call.kind = "opts"
    /\ call' = [call EXCEPT !.fn = "new", !.result = CommandNew(call.arg)]
    /\ UNCHANGED <<cameras, cameraCount, commands, callbacks, wire, now, started, datagrams, controller>>

\* a step builder of zoom or focus is called and its Command is serialised
StepBuilderCall ==
    /\ call.fn = "none" /\ call.kind = "step"
    /\ call' = [call EXCEPT !.fn = "step",
                            !.result = [command |-> StepBuild(call.arg),
                                        packet |-> ToPacket(StepBuild(call.arg))]]
    /\ UNCHANGED <<cameras, cameraCount, commands, callbacks, wire, now, started, datagrams, controller>>

\* ------------------------------------------------- UDP passthrough server
\* the clients of a passthrough server, as dgram reports them in info
UdpClients ==
    { [address |-> "10.0.0.5", port |-> 52000], [address |-> "10.0.0.6", port |-> 52001] }
\* the frames a client sends: power on (81 01 04 00 02 FF), power inquiry (81 09 04 00 FF)
UdpFrames == { <<129, 1, 4, 0, 2, 255>>, <<129, 9, 4, 0, 255>> }

\* the listener of the socket's 'message' event, for datagram msg from info: it logs,
\* then calls emit('message', msg), a bare name that is bound nowhere (the method is
\* this.emit, and this is the socket here), so it throws before anything is handed
\* on; info is kept nowhere
ServerOnMessage(msg, info) ==
    [ emitted |-> <<>>, datagrams |-> datagrams, threw |-> "ReferenceError" ]

\* Server.write(packet): this.socket.write(packet). A dgram socket has send(msg,
\* port, address) and no write, so the call throws and nothing is sent
ServerWrite(packet) ==
    [ datagrams |-> datagrams, threw |-> "TypeError" ]

\* a datagram arrives at the passthrough server
UdpMessage(msg, info) ==
    /\ datagrams' = ServerOnMessage(msg, info).datagrams
    /\ UNCHANGED <<cameras, cameraCount, commands, callbacks, wire, now, started, call, controller>>

\* server.write(packet) for a reply of the camera
UdpWrite(packet) ==
    /\ datagrams' = ServerWrite(packet).datagrams
    /\ UNCHANGED <<cameras, cameraCount, commands, callbacks, wire, now, started, call, controller>>

\* ------------------------------------------- controller: start and broadcast
\* ViscaController.start(). Past the guard it assigns ZOOM_SETTINGS_INT and then
\* iterates this.ZOOM_SETTINGS, which no code defines: for...of over undefined
\* throws a TypeError, outside the try block, so the lines that open the port and
\* attach the listeners (camera.js:184-189) are never run.
StartResult ==
    IF started THEN [controller |-> controller, threw |-> "none"]
    ELSE [controller |-> [controller EXCEPT !.ZOOM_SETTINGS_INT = "empty"],
          threw |-> "TypeError"]

\* a caller calls controller.start()
Start ==
    /\ controller' = StartResult.controller
    /\ UNCHANGED <<cameras, cameraCount, commands, callbacks, wire, now, started,
                   datagrams, call>>

\* ViscaController.write(packet): this.serialport is undefined until start() has
\* assigned it, so reading isOpen throws. On an open port the packet is written,
\* and dump then assigns to header, a name declared nowhere, in the strict code
\* of a class body.
ControllerWrite(ctl, packet) ==
    IF ctl.serialports = 0 THEN [controller |-> ctl, threw |-> "TypeError"]
    ELSE IF ~started THEN [controller |-> ctl, threw |-> "none"]
    ELSE [controller |-> [ctl EXCEPT !.written = Append(@, packet)],
          threw |-> "ReferenceError"]

\* the Command object id as toPacket reads it: socket, dataType and data are the
\* defaults every constructed Command has
Frame(c) ==
    [ source |-> c.source, recipient |-> c.recipient, broadcast |-> c.broadcast,
      msgType |-> c.msgType, socket |-> Defaults.socket, dataType |-> Defaults.dataType,
      data |-> Defaults.data ]

\* ViscaController.sendBroadcast(viscaCommand) for Command id: it sets broadcast,
\* and toPacket calls header(), where a recipient above -1 clears it again
SendBroadcastResult(cmds, id) ==
    LET c == Frame([cmds[id] EXCEPT !.broadcast = TRUE])
        packet == ToPacket(c)
        w == ControllerWrite(controller, packet)
    IN  [ cmds |-> [cmds EXCEPT ![id].broadcast = Header(c).broadcast],
          cameras |-> cameras,
          packet |-> packet,
          controller |-> w.controller,
          threw |-> w.threw ]

\* the message types of the Commands a caller broadcasts
BroadcastTypes == {MSGTYPE_COMMAND, MSGTYPE_ADDRESS_SET}

\* the state after controller.sendBroadcast has run with result r
StoreBroadcast(r) ==
    /\ commands' = r.cmds
    /\ cameras' = r.cameras
    /\ controller' = r.controller
    /\ UNCHANGED <<cameraCount, callbacks, wire, now, started, datagrams, call>>

\* a caller broadcasts a Command that some camera has been sent before
SendBroadcast(id) ==
    /\ id \in 1..Len(commands)
    /\ StoreBroadcast(SendBroadcastResult(commands, id))

\* a caller creates a Command and broadcasts it
SendBroadcastNew(msgType) ==
    /\ Len(commands) < MaxCmds
    /\ StoreBroadcast(SendBroadcastResult(Append(commands, NewCommand(msgType, "null")),
                                          Len(commands) + 1))

\* time passes. The clock is read only to stamp a command and to age the commands
\* a camera tracks, so it is advanced only while some camera tracks one.
Tick ==
    /\ now < MaxTime
    /\ \E k \in DOMAIN cameras :
          cameras[k].sentCommands # <<>> \/ DOMAIN cameras[k].cameraBuffers # {}
    /\ now' = now + 1
    /\ UNCHANGED <<cameras, cameraCount, commands, callbacks, wire, rest>>

Next ==
    \/ \E k \in CameraAddrs, mt \in SubmitTypes, dp \in DataParsers :
          /\ (mt # MSGTYPE_INQUIRY => dp = "null")
          /\ Submit(k, mt, dp)
    \/ \E k \in CameraAddrs, s \in Sockets : Ack(k, s)
    \/ \E k \in CameraAddrs, s \in Sockets : Complete(k, s, ReplyData(s))
    \/ \E k \in CameraAddrs, s \in Sockets, e \in ErrorCodes : Error(k, s, e)
    \/ \E k \in CameraAddrs : Clear(k)
    \/ \E k \in CameraAddrs : UpdateTimer(k)
    \/ \E p \in InboundPackets : OnData(p)
    \/ Tick

Spec == Init /\ [][Next]_vars

\* the controller together with the events of its serial transport
NextTransport == Next \/ OnOpen \/ OnClose \/ OnError

SpecTransport == Init /\ [][NextTransport]_vars

\* the controller together with a UDP passthrough server
NextPassthrough ==
    \/ Next
    \/ \E msg \in UdpFrames, info \in UdpClients : UdpMessage(msg, info)
    \/ \E packet \in InboundPackets : UdpWrite(packet)

SpecPassthrough == Init /\ [][NextPassthrough]_vars

\* a caller has an integer or a Command at hand and calls a function of the library
InitLibrary ==
    /\ InitController
    /\ \/ \E u \in IntInputs : call = Pending("int", u)
       \/ \E c \in CommandInputs : call = Pending("Command", c)
       \/ \E i \in BuilderInputs : call = Pending("builder", i)
       \/ \E i \in StepInputs : call = Pending("step", i)
       \/ \E has \in SUBSET OptKeys, full \in OptValues :
             call = Pending("opts", [key \in has |-> full[key]])

NextLibrary ==
    \/ I2vCall \/ Si2vCall \/ HeaderCall \/ ToPacketCall \/ BuilderCall
    \/ StepBuilderCall \/ ConstructorCall

SpecLibrary == InitLibrary /\ [][NextLibrary]_vars

\* the controller with its callers: the cameras' operations, the transport's events,
\* start() and sendBroadcast(c)
NextController ==
    \/ NextTransport
    \/ Start
    \/ \E id \in 1..MaxCmds : SendBroadcast(id)
    \/ \E mt \in BroadcastTypes : SendBroadcastNew(mt)

SpecController == Init /\ [][NextController]_vars

\* a chain of two cameras: both have been constructed and stored in the table
InitChain ==
    /\ cameras = [k \in CameraAddrs |-> NewCamera(k, TRUE)]
    /\ cameraCount = 0
    /\ commands = <<>>
    /\ callbacks = <<>>
    /\ wire = <<>>
    /\ now = 0
    /\ started = FALSE
    /\ controller = NewController
    /\ datagrams = <<>>
    /\ call = NoCall

\* the chain with its callers and the cameras' replies, at one instant of the clock
NextChain ==
    \/ \E k \in CameraAddrs, mt \in SubmitTypes, dp \in DataParsers :
          /\ (mt # MSGTYPE_INQUIRY => dp = "null")
          /\ Submit(k, mt, dp)
    \/ \E k \in CameraAddrs, s \in Sockets : Ack(k, s)
    \/ \E k \in CameraAddrs, s \in Sockets : Complete(k, s, ReplyData(s))
    \/ \E k \in CameraAddrs, s \in Sockets, e \in ErrorCodes : Error(k, s, e)
    \/ \E p \in InboundPackets : OnData(p)

SpecChain == InitChain /\ [][NextChain]_vars

\* the controller under the scheduling Node gives it: a timer that _update armed
\* does fire, and the clock does advance. No reply of a camera is promised.
SpecWake ==
    /\ Init
    /\ [][Next]_vars
    /\ \A k \in CameraAddrs : WF_vars(UpdateTimer(k))
    /\ WF_vars(Tick)

\* ================================================================= claims
Ids == 1..Len(commands)
Range(s) == {s[i] : i \in 1..Len(s)}
Slots(cam) == {cam.cameraBuffers[s] : s \in DOMAIN cam.cameraBuffers}
\* the commands camera record cam holds, in any of its collections
Held(cam) ==
    Range(cam.sentCommands) \cup Slots(cam) \cup Range(cam.commandQueue)
        \cup Range(cam.inquiryQueue)
HeldAnywhere == UNION {Held(cameras[k]) : k \in DOMAIN cameras}
Tracked(id) == commands[id].msgType \in {MSGTYPE_COMMAND, MSGTYPE_INQUIRY}
\* how often a callback of command id is in the log cbs
Fired(cbs, id, kinds) ==
    Cardinality({i \in 1..Len(cbs) : cbs[i].cmd = id /\ cbs[i].cb \in kinds})
Terminal == {"onComplete", "onError"}
AckReply(s) == [socket |-> s, data |-> <<>>]
CompleteReply(s) == [socket |-> s, data |-> ReplyData(s)]
ErrorReply(s, code) == [socket |-> s, data |-> <<code>>]
\* an onError argument that is an error and none of the camera's own codes
IsTimeoutError(arg) ==
    /\ arg # <<>>
    /\ arg[1] \notin {ERROR_SYNTAX, ERROR_BUFFER_FULL, ERROR_CANCELLED,
                      ERROR_INVALID_BUFFER, ERROR_COMMAND_FAILED}

\* C1: every submitted command of type COMMAND or INQUIRY gets exactly one terminal
\* callback (onComplete or onError), exactly once: never more than one, and one once
\* the camera no longer holds the command.
C1_OneTerminalCallback ==
    \A id \in Ids : Tracked(id) =>
        /\ Fired(callbacks, id, Terminal) <= 1
        /\ (id \notin HeldAnywhere => Fired(callbacks, id, Terminal) = 1)

\* C2: an ACK reply is bound to the oldest written command not yet acknowledged: it
\* fires the onAck of the head of sentCommands, so onAck callbacks fire in the order
\* of submission.
C2_AckBindsOldest ==
    \A k \in DOMAIN cameras, s \in {1, 2} :
        cameras[k].sentCommands # <<>> =>
            CameraAck(Ctx(k), AckReply(s)).callbacks =
                Append(callbacks, [cmd |-> Head(cameras[k].sentCommands),
                                   cb |-> "onAck", arg |-> <<>>])

\* the COMMAND-type commands written for camera k, in wire order
CommandWrites(k) ==
    LET w == SelectSeq(wire, LAMBDA e : e.cam = k /\ commands[e.cmd].msgType = MSGTYPE_COMMAND)
    IN  [i \in 1..Len(w) |-> w[i].cmd]

RECURSIVE Ascending(_, _)
\* the members of the set ids up to n, as a sequence in ascending order
Ascending(ids, n) ==
    IF n = 0 THEN <<>>
    ELSE IF n \in ids THEN Append(Ascending(ids, n - 1), n)
    ELSE Ascending(ids, n - 1)

\* the COMMAND-type commands submitted to camera k, in the order of submission
\* (identities are given in that order)
CommandSubmits(k) ==
    Ascending({id \in Ids : /\ commands[id].msgType = MSGTYPE_COMMAND
                            /\ commands[id].recipient = cameras[k].index},
              Len(commands))

\* C3: for one camera, COMMAND-type commands are written to the transport in the
\* order of their submission: the sequence of frames written is the sequence of
\* commands submitted, so A submitted before B is written before B.
C3_WriteOrder ==
    \A k \in DOMAIN cameras : CommandWrites(k) = CommandSubmits(k)

\* C3 witness: two commands submitted to camera 1 at different times, with an
\* inquiry in between, are both on the wire
C3_Witness ==
    /\ Len(CommandWrites(1)) >= 2
    /\ \E id \in Ids : /\ commands[id].msgType = MSGTYPE_INQUIRY
                         /\ id > CommandWrites(1)[1]
                         /\ id < CommandWrites(1)[2]
    /\ commands[CommandWrites(1)[1]].addedAt < commands[CommandWrites(1)[2]].addedAt

\* C4: the occupied command slots (1 and 2) and the commands written but not yet
\* acknowledged are at most 2 together.
C4_SlotBound ==
    \A k \in DOMAIN cameras :
        Cardinality(DOMAIN cameras[k].cameraBuffers \cap {1, 2})
            + Len(cameras[k].sentCommands) <= 2

\* C5: a command that has had no reply and is more than 1 second old when the
\* stale-command GC runs (here: in the _update of the next sendCommand) is removed,
\* and its onError fires with a TIMEOUT error.
C5_TimeoutFiresOnError ==
    \A k \in DOMAIN cameras, mt \in SubmitTypes :
        Len(commands) < MaxCmds =>
            LET r == SubmitResult(k, mt, "null")
            IN  \A id \in Range(cameras[k].sentCommands) \cup Slots(cameras[k]) :
                    AgeMs(Ctx(k), id) > SentMaxAgeMs =>
                        /\ id \notin Held(r.cam)
                        /\ \E i \in 1..Len(r.callbacks) :
                              /\ r.callbacks[i].cmd = id
                              /\ r.callbacks[i].cb = "onError"
                              /\ IsTimeoutError(r.callbacks[i].arg)

\* C6: a command or inquiry that has sat in a slot for more than 1 second is taken
\* out of the slot by the GC, so that the readiness flag of the slot is true again
\* unless newer work has taken the slot.
C6_SlotReclaimed ==
    \A k \in DOMAIN cameras, mt \in SubmitTypes :
        Len(commands) < MaxCmds =>
            LET r == SubmitResult(k, mt, "null")
                buf == cameras[k].cameraBuffers
            IN  \A s \in DOMAIN buf :
                    AgeMs(Ctx(k), buf[s]) > BufferMaxAgeMs =>
                        /\ buf[s] \notin Slots(r.cam)
                        /\ (s \notin DOMAIN r.cam.cameraBuffers =>
                              IF s = 0 THEN r.cam.inquiryReady ELSE r.cam.commandReady)

\* C7: for a COMMAND submitted to an idle camera, an ACK on socket s (1 or 2) moves
\* the command from sentCommands into slot s and fires its onAck, and the COMPLETE
\* on socket s that follows fires its onComplete and empties slot s.
C7_AckThenComplete ==
    \A k \in DOMAIN cameras, s \in {1, 2} :
        (/\ Len(cameras[k].sentCommands) = 1
         /\ DOMAIN cameras[k].cameraBuffers \cap {1, 2} = {})
        => LET c == Head(cameras[k].sentCommands)
               a == CameraAck(Ctx(k), AckReply(s))
               b == CameraComplete([a EXCEPT !.threw = "none"], CompleteReply(s))
           IN  /\ a.cam.sentCommands = <<>>
               /\ s \in DOMAIN a.cam.cameraBuffers
               /\ a.cam.cameraBuffers[s] = c
               /\ b.callbacks = callbacks \o <<[cmd |-> c, cb |-> "onAck", arg |-> <<>>],
                                               [cmd |-> c, cb |-> "onComplete", arg |-> <<>>]>>
               /\ s \notin DOMAIN b.cam.cameraBuffers

\* C8: an ERROR reply with socket 0 and code BUFFER_FULL or SYNTAX, arriving while
\* sentCommands is non-empty, removes the head of sentCommands and fires its onError
\* with that code, and the pump leaves no queued command behind a ready camera.
C8_BufferFullHitsHead ==
    \A k \in DOMAIN cameras, code \in {ERROR_BUFFER_FULL, ERROR_SYNTAX} :
        cameras[k].sentCommands # <<>> =>
            LET head == Head(cameras[k].sentCommands)
                r == CameraError(Ctx(k), ErrorReply(0, code))
            IN  /\ head \notin Range(r.cam.sentCommands)
                /\ r.callbacks = Append(callbacks, [cmd |-> head, cb |-> "onError",
                                                    arg |-> <<code>>])
                /\ (r.cam.commandReady => r.cam.commandQueue = <<>>)

\* C9: the COMPLETE reply with socket 0 hands the reply payload to the onComplete of
\* the inquiry in slot 0, takes the inquiry out of slot 0, and has the next inquiry
\* of the inquiry queue written and put in slot 0.
C9_InquiryComplete ==
    \A k \in DOMAIN cameras :
        (/\ 0 \in DOMAIN cameras[k].cameraBuffers
         /\ commands[cameras[k].cameraBuffers[0]].dataParser = "null")
        => LET c == cameras[k].cameraBuffers[0]
               q == cameras[k].inquiryQueue
               r == CameraComplete(Ctx(k), CompleteReply(0))
           IN  /\ r.callbacks = Append(callbacks, [cmd |-> c, cb |-> "onComplete",
                                                   arg |-> ReplyData(0)])
               /\ c \notin Slots(r.cam)
               /\ (q # <<>> =>
                     /\ r.wire = Append(wire, [cam |-> k, cmd |-> Head(q)])
                     /\ 0 \in DOMAIN r.cam.cameraBuffers
                     /\ r.cam.cameraBuffers[0] = Head(q))

\* C10: when the controller is handed the reply to an interface clear-all, every
\* camera of the table ends with its slots, sentCommands, command queue and inquiry
\* queue empty, and every command that was pending in them has had onError fired
\* with CANCELLED.
C10_ClearAllResets ==
    LET r == OnDataResult(IfClearReply)
    IN  /\ \A k \in DOMAIN r.cameras : Held(r.cameras[k]) = {}
        /\ \A id \in HeldAnywhere :
              \E i \in 1..Len(r.callbacks) :
                  /\ r.callbacks[i].cmd = id
                  /\ r.callbacks[i].cb = "onError"
                  /\ r.callbacks[i].arg = <<ERROR_CANCELLED>>

\* the ADDRESS_SET frames that come back from a chain of one and of two cameras
AddressSetReplies == {AddressSetReply, AddressSetReplyOfTwo}
\* a Camera record as its constructor leaves it: nothing held, both paths ready
Fresh(cam) == Held(cam) = {} /\ cam.commandReady /\ cam.inquiryReady

\* C11: after onData has handled an ADDRESS_SET frame whose first payload byte is
\* N+1, whatever the table held before, the camera table holds exactly the addresses
\* 1..N, each with a fresh Camera record, and cameraCount is N.
C11_AddressSetTable ==
    \A p \in AddressSetReplies :
        LET n == p[3] - 1
            r == OnDataResult(p)
        IN  /\ r.cameraCount = n
            /\ DOMAIN r.cameras = 1..n
            /\ \A i \in DOMAIN r.cameras : Fresh(r.cameras[i])

\* a write of the ADDRESS_SET broadcast (88 30 01 FF): the last entry of the wire w
IsAddressSetBroadcast(w, cmds) ==
    /\ w # <<>>
    /\ LET e == w[Len(w)]
       IN  /\ e.cmd \in 1..Len(cmds)
           /\ cmds[e.cmd].msgType = MSGTYPE_ADDRESS_SET
           /\ cmds[e.cmd].broadcast

\* C12: every NETCHANGE frame handed to onData makes the controller write the
\* ADDRESS_SET broadcast once more, and handling the chain's reply again gives the
\* same camera table, addresses 1..N, as the first bring-up.
C12_NetChangeResends ==
    LET r == OnDataResult(NetChangeFrame)
    IN  /\ Len(r.wire) = Len(wire) + 1
        /\ IsAddressSetBroadcast(r.wire, r.cmds)
        /\ \A p \in AddressSetReplies : DOMAIN OnDataResult(p).cameras = 1..(p[3] - 1)

\* the ACK, COMPLETE and ERROR frames of cameras 1 and 2
ReplyFrames ==
    {AckFrame, CompleteFrame, ErrorFrame, AckFromTwo, CompleteFromTwo, ErrorFromTwo}

\* C13: when onData is handed a frame whose source address is no key of the camera
\* table, a Camera record is created at that address before the frame is dispatched:
\* after the handler the table has a record at the frame's source, and the dispatch
\* of the ACK, COMPLETE or ERROR did not run into a missing Camera.
C13_UnknownSourceCreated ==
    \A p \in ReplyFrames :
        LET v == FromPacket(p)
            r == OnDataResult(p)
        IN  /\ v.source \in DOMAIN r.cameras
            /\ (v.source \notin DOMAIN cameras => r.cameras[v.source] = NewCamera(v.source, TRUE))

\* the commands in flight: written, and neither completed nor failed
InFlight(cam) == Range(cam.sentCommands) \cup Slots(cam)
\* an onError argument that is an error and none of the camera's own codes
IsTransportError(arg) ==
    arg # <<>> /\ arg[1] \notin ErrorCodes \cup {ERROR_INVALID_BUFFER, ERROR_COMMAND_FAILED}

\* C14: when the serial transport reports close or error, started is false
\* afterwards, and every command that was in flight (in sentCommands or in a slot of
\* any camera) has had its onError fired exactly once, with a TRANSPORT error.
C14_TransportDownFailsInFlight ==
    LET r == TransportDown
    IN  /\ ~r.started
        /\ \A k \in DOMAIN cameras : \A id \in InFlight(cameras[k]) :
              /\ Fired(r.callbacks, id, {"onError"}) = 1
              /\ \E i \in 1..Len(r.callbacks) :
                    /\ r.callbacks[i].cmd = id
                    /\ r.callbacks[i].cb = "onError"
                    /\ IsTransportError(r.callbacks[i].arg)

\* C15: for a frame the passthrough server received from a client at (address,
\* port), every ACK, COMPLETE or ERROR reply of the camera that the server is given
\* to write goes out as a datagram to that same (address, port).
C15_RepliesReachClient ==
    \A msg \in UdpFrames, info \in UdpClients, reply \in ReplyFrames :
        LET m == ServerOnMessage(msg, info)
            w == ServerWrite(reply)
        IN  /\ m.emitted = <<msg>>
            /\ w.datagrams = Append(datagrams, [address |-> info.address, port |-> info.port,
                                                 packet |-> reply])

\* sendCommand of a new command of type msgType wrote its frame, and nothing else,
\* before it returned
WrittenAtOnce(k, msgType) ==
    SubmitResult(k, msgType, "null").wire = Append(wire, [cam |-> k, cmd |-> Len(commands) + 1])

WellFormed(c) == c.broadcast <=> (c.recipient = -1)

\* C17: for every well-formed Command c (addressed or broadcast, any message type,
\* any datatype, INTERFACE = 0x00 included, any payload),
\* Command.fromPacket(c.toPacket()) returns a Command with the source, recipient,
\* broadcast flag, msgType, socket, dataType and data of c.
C17_ParseRoundTrip ==
    (call.fn = "toPacket" /\ WellFormed(call.arg)) =>
        LET c == call.arg
            r == call.result.parsed
        IN  /\ r.threw = "none"
            /\ r.source = c.source
            /\ r.recipient = c.recipient
            /\ r.broadcast = c.broadcast
            /\ r.msgType = c.msgType
            /\ r.socket = c.socket
            /\ r.dataType = c.dataType
            /\ r.data = c.data

\* C18: for every source in 0..7 and recipient in 0..7 the header byte of a
\* Command that is no broadcast is 0x80 | (source << 4) | recipient (0x82 for
\* recipient 2 from the controller), and the header byte of a broadcast Command is
\* 0x88.
C18_HeaderByte ==
    call.fn = "header" =>
        LET c == call.arg
        IN  /\ (~c.broadcast /\ c.recipient \in 0..7
                  => call.result.header = 128 + 16 * c.source + c.recipient)
            /\ (c.broadcast /\ c.recipient = -1 => call.result.header = 136)

\* C19: v2i(i2v(u)) = u for every u in 0..0xFFFF, and v2si(si2v(s)) = s for every
\* s in -32768..32767.
C19_CodecRoundTrip ==
    /\ (call.fn = "i2v" /\ call.arg \in 0..WordMax => call.result.back = call.arg)
    /\ (call.fn = "si2v" /\ call.arg \in Int16Min..Int16Max => call.result.back = call.arg)

\* C19 witness: a negative 16-bit integer has been through si2v and v2si and has
\* come back
C19_Witness ==
    /\ call.fn = "si2v"
    /\ call.arg < 0 /\ call.arg >= Int16Min
    /\ call.result.back = call.arg

\* C20: for every integer given to i2v (outside 0..0xFFFF too) and every integer
\* given to si2v, each of the 4 bytes of the result is in 0..15, so no byte of an
\* encoded payload is 0xFF.
C20_NibbleSafe ==
    call.fn \in {"i2v", "si2v"} =>
        /\ Len(call.result.bytes) = 4
        /\ \A i \in 1..4 : call.result.bytes[i] \in 0..15

\* C20 witness: i2v has encoded an integer beyond 0xFFFF, and si2v one below -32768
C20_Witness ==
    \/ call.fn = "i2v" /\ call.arg > WordMax /\ call.result.bytes # <<0, 0, 0, 0>>
    \/ call.fn = "si2v" /\ call.arg < Int16Min /\ call.result.bytes = <<8, 0, 0, 0>>

\* C21: for every Command a builder returns, whatever the argument values, the
\* frame toPacket gives ends with 0xFF and has no 0xFF before its last byte.
C21_TerminatorOnlyLast ==
    call.fn = "builder" =>
        LET packet == call.result.packet
        IN  /\ Len(packet) >= 3
            /\ packet[Len(packet)] = 255
            /\ \A i \in 1..(Len(packet) - 1) : packet[i] # 255

\* C21 witness: a builder was given 0xFF (or -1, the same byte) as an argument and
\* its Command has been serialised
C21_Witness ==
    /\ call.fn = "builder"
    /\ call.arg.a \in {-1, 255}
    /\ call.result.packet[Len(call.result.packet)] = 255

\* C22: for any xspeed and yspeed given to cmdCameraPanTilt or
\* cmdCameraPanTiltDirect, the frame has a pan-speed byte (VV of 8x 01 06 01 VV WW
\* .. FF, the fifth byte) within 1..18 and a tilt-speed byte (WW, the sixth) within
\* 1..17.
C22_SpeedsInRange ==
    (call.fn = "builder" /\ call.arg.builder \in {"cmdCameraPanTilt", "cmdCameraPanTiltDirect"})
    => LET packet == call.result.packet
       IN  /\ Len(packet) >= 7
           /\ packet[5] \in 1..18
           /\ packet[6] \in 1..17

\* how often id is in the sequence s
Occurrences(s, id) == Cardinality({i \in 1..Len(s) : s[i] = id})
\* in how many places camera record cam holds command id
Places(cam, id) ==
    Occurrences(cam.sentCommands, id) + Occurrences(cam.commandQueue, id)
        + Occurrences(cam.inquiryQueue, id)
        + Cardinality({s \in DOMAIN cam.cameraBuffers : cam.cameraBuffers[s] = id})

SubmitIn(ctx, msgType) ==
    SendCommand([ctx EXCEPT !.cmds = Append(@, NewCommand(msgType, "null")),
                            !.threw = "none"],
                [kind |-> "Command", id |-> Len(ctx.cmds) + 1])

\* C24: a COMMAND submitted while slot 1 or 2 of the camera is occupied (here: after
\* the ACK on socket s for the command written before, and before its COMPLETE) is
\* appended to the command queue and its frame is not written.
C24_QueuedBehindSlot ==
    \A k \in DOMAIN cameras, s \in {1, 2} :
        (cameras[k].sentCommands # <<>> /\ Len(commands) < MaxCmds) =>
            LET id == Len(commands) + 1
                a == CameraAck(Ctx(k), AckReply(s))
                r == SubmitIn(a, MSGTYPE_COMMAND)
            IN  /\ s \in DOMAIN a.cam.cameraBuffers
                /\ r.wire = wire
                /\ r.cam.commandQueue = Append(cameras[k].commandQueue, id)
                /\ id \notin Range(r.cam.sentCommands)

\* t is what is left of s after some of its first elements have gone
IsSuffix(t, s) == \E n \in 0..Len(s) : t = SubSeq(s, n + 1, Len(s))
\* the identities in s grow from head to tail: s is in the order of submission
InSubmissionOrder(s) == \A i, j \in 1..Len(s) : i < j => s[i] < s[j]
\* the INQUIRY frames among the entries that wire w has after its first n
InquiryWrites(w, cmds, n) ==
    {i \in (n + 1)..Len(w) : cmds[w[i].cmd].msgType = MSGTYPE_INQUIRY}

\* C25: at most one inquiry per camera is in flight: while an inquiry is in slot 0,
\* no sendCommand writes an INQUIRY frame to that camera and slot 0 keeps its
\* inquiry; an INQUIRY submitted meanwhile is appended to the inquiry queue, and the
\* queue is in submission order and loses entries at its head only.
C25_OneInquiryInFlight ==
    \A k \in DOMAIN cameras :
        LET cam == cameras[k]
            id == Len(commands) + 1
        IN  /\ InSubmissionOrder(cam.inquiryQueue)
            /\ Len(commands) < MaxCmds =>
                  \A mt \in SubmitTypes :
                      LET r == SubmitResult(k, mt, "null")
                      IN  /\ \/ IsSuffix(r.cam.inquiryQueue, cam.inquiryQueue)
                             \/ IsSuffix(r.cam.inquiryQueue, Append(cam.inquiryQueue, id))
                          /\ 0 \in DOMAIN cam.cameraBuffers =>
                                /\ InquiryWrites(r.wire, r.cmds, Len(wire)) = {}
                                /\ 0 \in DOMAIN r.cam.cameraBuffers
                                /\ r.cam.cameraBuffers[0] = cam.cameraBuffers[0]
                                /\ mt = MSGTYPE_INQUIRY =>
                                      r.cam.inquiryQueue = Append(cam.inquiryQueue, id)

\* C25 witness: an inquiry is in slot 0 and two more, submitted after it, wait in
\* the inquiry queue
C25_Witness ==
    \E k \in DOMAIN cameras :
        /\ 0 \in DOMAIN cameras[k].cameraBuffers
        /\ Len(cameras[k].inquiryQueue) = 2
        /\ cameras[k].cameraBuffers[0] < cameras[k].inquiryQueue[1]

\* the message types of the messages that are not to be tracked, as sendCommand sees
\* them: of the Commands that Command.addressSet, Command.cancel and
\* Command.cmdInterfaceClearAll return for camera k, and of a Command whose msgType
\* the caller has set to NETCHANGE or CANCEL
UntrackedTypes(k) ==
    { CommandAddressSet.msgType, CommandCancel(k, 1).msgType,
      CmdInterfaceClearAll(k).msgType, MSGTYPE_NETCHANGE, MSGTYPE_CANCEL }

\* C26: an AddressSet, NetChange or Cancel message, or an Interface-clear command,
\* handed to sendCommand is written at once whatever the slots and queues hold, and
\* leaves sentCommands, the slots and both queues as they were.
C26_UntrackedWrittenAtOnce ==
    \A k \in DOMAIN cameras :
        Len(commands) < MaxCmds =>
            \A mt \in UntrackedTypes(k) :
                LET r == SubmitResult(k, mt, "null")
                IN  /\ r.wire = Append(wire, [cam |-> k, cmd |-> Len(commands) + 1])
                    /\ r.cam.sentCommands = cameras[k].sentCommands
                    /\ r.cam.cameraBuffers = cameras[k].cameraBuffers
                    /\ r.cam.commandQueue = cameras[k].commandQueue
                    /\ r.cam.inquiryQueue = cameras[k].inquiryQueue

\* the call that gave r returned normally, fired no callback and left camera k as
\* it was
Discarded(k, r) ==
    /\ r.threw = "none"
    /\ r.callbacks = callbacks
    /\ r.cam = cameras[k]

\* C27: a reply that matches no pending command (an ACK while sentCommands is
\* empty, a COMPLETE or ERROR whose socket names an empty slot) is discarded: the
\* handler returns, no callback fires, and the camera's slots, sentCommands and
\* queues are unchanged, so that later replies are processed.
C27_UnmatchedDiscarded ==
    \A k \in DOMAIN cameras :
        /\ cameras[k].sentCommands = <<>> =>
              \A s \in {1, 2} : Discarded(k, CameraAck(Ctx(k), AckReply(s)))
        /\ \A s \in Sockets \ DOMAIN cameras[k].cameraBuffers :
              /\ Discarded(k, CameraComplete(Ctx(k), CompleteReply(s)))
              /\ \A code \in ErrorCodes : Discarded(k, CameraError(Ctx(k), ErrorReply(s, code)))

\* slot t holds the same in camera records x and y
SameSlot(x, y, t) ==
    /\ (t \in DOMAIN x.cameraBuffers) = (t \in DOMAIN y.cameraBuffers)
    /\ t \in DOMAIN x.cameraBuffers => x.cameraBuffers[t] = y.cameraBuffers[t]

\* C28: an ERROR reply with code 0x04 (cancelled) on socket s (1 or 2) whose slot is
\* occupied (here: by the command the ACK on socket s has just bound to it) fires
\* the onError of the command in slot s with the code CANCELLED as its argument,
\* empties slot s, and leaves the other command slot and slot 0 as they were.
C28_CancelledOnSocket ==
    \A k \in DOMAIN cameras, s \in {1, 2} :
        cameras[k].sentCommands # <<>> =>
            LET c == Head(cameras[k].sentCommands)
                a == CameraAck(Ctx(k), AckReply(s))
                e == CameraError([a EXCEPT !.threw = "none"], ErrorReply(s, ERROR_CANCELLED))
            IN  /\ s \in DOMAIN a.cam.cameraBuffers
                /\ a.cam.cameraBuffers[s] = c
                /\ \E i \in 1..Len(e.callbacks) :
                      e.callbacks[i] = [cmd |-> c, cb |-> "onError", arg |-> <<ERROR_CANCELLED>>]
                /\ s \notin DOMAIN e.cam.cameraBuffers
                /\ \A t \in Sockets \ {s} : SameSlot(e.cam, a.cam, t)

\* C29: the stale-command GC uses one threshold for sentCommands and for the slots:
\* _clearOldCommands drops an entry if and only if now - addedAt is strictly more
\* than 1000 ms, so an entry exactly 1000 ms old stays, in sentCommands and in a
\* slot alike.
C29_OneThreshold ==
    \A k \in DOMAIN cameras :
        LET cam == cameras[k]
            r == ClearOldCommands(Ctx(k))
        IN  /\ \A id \in Range(cam.sentCommands) :
                  (AgeMs(Ctx(k), id) > SentMaxAgeMs) <=> (id \notin Range(r.cam.sentCommands))
            /\ \A s \in DOMAIN cam.cameraBuffers :
                  (AgeMs(Ctx(k), cam.cameraBuffers[s]) > BufferMaxAgeMs)
                      <=> (s \notin DOMAIN r.cam.cameraBuffers)

InQueue(id) ==
    \E k \in DOMAIN cameras :
        id \in Range(cameras[k].commandQueue) \cup Range(cameras[k].inquiryQueue)

OnWire(id) == \E i \in 1..Len(wire) : wire[i].cmd = id

\* C30: every command or inquiry placed in a camera's commandQueue or inquiryQueue
\* is eventually written to the transport, also when the camera stops replying: the
\* 20 ms self-wake and the timeout GC get the queue moving again.
C30_QueuedEventuallyWritten ==
    \A id \in 1..MaxCmds : InQueue(id) ~> OnWire(id)

\* C31: sendBroadcast(c) writes a frame whose header byte is 0x88, for every Command
\* c, also one that carries a recipient in 0..7, and adds c to no camera's
\* sentCommands, slots or queues.
C31_BroadcastHeader ==
    \A id \in Ids :
        LET r == SendBroadcastResult(commands, id)
        IN  /\ r.packet[1] = 136
            /\ r.controller.written = Append(controller.written, r.packet)
            /\ r.cameras = cameras

\* C32: once the controller has handled the AddressSet reply of a chain of N
\* cameras, an Interface-Clear has been written and each of the N new cameras has
\* an inquiry of the inquire-all suite in flight or queued.
C32_InquireAllEnqueued ==
    \A n \in CameraAddrs :
        LET r == OnAddressSet(ControllerCtx, [data |-> <<n + 1>>])
        IN  /\ Len(r.wire) > Len(wire)
            /\ \A k \in 1..n :
                  /\ k \in DOMAIN r.cameras
                  /\ \/ 0 \in DOMAIN r.cameras[k].cameraBuffers
                     \/ r.cameras[k].inquiryQueue # <<>>

\* the stored readiness flags of camera record cam agree with its slots, and no
\* work waits in a queue whose flag says ready
FlagsAgree(cam) ==
    /\ cam.commandReady <=> (DOMAIN cam.cameraBuffers \cap {1, 2} = {})
    /\ cam.inquiryReady <=> (0 \notin DOMAIN cam.cameraBuffers)
    /\ cam.commandReady => cam.commandQueue = <<>>
    /\ cam.inquiryReady => cam.inquiryQueue = <<>>

\* what each camera operation leaves behind for camera k in the current state
OperationResults(k) ==
    {SubmitResult(k, mt, "null") : mt \in {m \in SubmitTypes : Len(commands) < MaxCmds}}
        \cup {CameraAck(Ctx(k), AckReply(s)) : s \in Sockets}
        \cup {CameraComplete(Ctx(k), CompleteReply(s)) : s \in Sockets}
        \cup {CameraError(Ctx(k), ErrorReply(s, e)) : s \in Sockets, e \in ErrorCodes}

\* C33: in every state a camera operation (sendCommand, ack, complete, error) leaves
\* when it has returned, the readiness flags agree with the slots and no ready work
\* waits: commandReady is true exactly when slots 1 and 2 are empty, inquiryReady
\* exactly when slot 0 is empty, and a flag that is true has an empty queue. An
\* operation that ends in an exception leaves the agreement as it found it.
C33_FlagsAgree ==
    \A k \in DOMAIN cameras :
        \A r \in OperationResults(k) :
            (r.threw = "none" \/ FlagsAgree(cameras[k])) => FlagsAgree(r.cam)

\* sendCommand has returned with an inquiry in slot 0 and another one queued
C33_Witness ==
    \E k \in DOMAIN cameras :
        /\ 0 \in DOMAIN cameras[k].cameraBuffers
        /\ cameras[k].inquiryQueue # <<>>
        /\ ~cameras[k].inquiryReady
        /\ FlagsAgree(cameras[k])

\* camera k inside sendCommand(c) for a new COMMAND c, where _update is about to
\* run: c is stamped, addressed and appended to sentCommands
AfterPush(k) ==
    LET id == Len(commands) + 1
        c == [NewCommand(MSGTYPE_COMMAND, "null") EXCEPT
                 !.recipient = cameras[k].index, !.broadcast = FALSE, !.addedAt = now]
    IN  [Ctx(k) EXCEPT !.cmds = Append(@, c), !.cam.sentCommands = Append(@, id)]

\* C34: the stale-command GC never removes from sentCommands a command that is
\* less than 1000 ms old, however old the commands in the slots are.
C34_YoungSentKept ==
    \A k \in DOMAIN cameras :
        Len(commands) < MaxCmds =>
            LET c == AfterPush(k)
                r == ClearOldCommands(c)
            IN  \A id \in Range(c.cam.sentCommands) :
                    AgeMs(c, id) < SentMaxAgeMs => id \in Range(r.cam.sentCommands)

\* C35: an ERROR reply with socket 0 and code BUFFER_FULL or SYNTAX that arrives
\* while an inquiry is in slot 0 and a command waits in sentCommands is about the
\* command: it does not fire the onError of the inquiry and leaves the inquiry in
\* slot 0, and the COMPLETE on socket 0 that follows still fires the inquiry's
\* onComplete.
C35_BufferFullSparesInquiry ==
    \A k \in DOMAIN cameras, code \in {ERROR_BUFFER_FULL, ERROR_SYNTAX} :
        (0 \in DOMAIN cameras[k].cameraBuffers /\ cameras[k].sentCommands # <<>>) =>
            LET i == cameras[k].cameraBuffers[0]
                e == CameraError(Ctx(k), ErrorReply(0, code))
                c == CameraComplete([e EXCEPT !.threw = "none"], CompleteReply(0))
            IN  /\ Fired(e.callbacks, i, {"onError"}) = Fired(callbacks, i, {"onError"})
                /\ 0 \in DOMAIN e.cam.cameraBuffers
                /\ e.cam.cameraBuffers[0] = i
                /\ commands[i].dataParser = "null" =>
                      Fired(c.callbacks, i, {"onComplete"})
                          = Fired(callbacks, i, {"onComplete"}) + 1

\* slot 0 of camera record cam holds an INQUIRY, slots 1 and 2 hold COMMANDs
SlotTypes(cam, cmds) ==
    \A s \in DOMAIN cam.cameraBuffers :
        cmds[cam.cameraBuffers[s]].msgType
            = (IF s = 0 THEN MSGTYPE_INQUIRY ELSE MSGTYPE_COMMAND)

\* C36: in every reachable state of a camera slot 0 holds only an INQUIRY and slots
\* 1 and 2 hold only COMMANDs, and an ACK, whatever socket it carries, leaves an
\* occupied slot with the command it held.
C36_SlotsTypedAckKeeps ==
    \A k \in DOMAIN cameras :
        /\ SlotTypes(cameras[k], commands)
        /\ \A s \in Sockets :
              LET r == CameraAck(Ctx(k), AckReply(s))
              IN  /\ SlotTypes(r.cam, r.cmds)
                  /\ \A t \in DOMAIN cameras[k].cameraBuffers : SameSlot(r.cam, cameras[k], t)

\* an inquiry is in slot 0, an ACK has taken a written COMMAND out of sentCommands,
\* and a further COMMAND waits for its ACK
C36_Witness ==
    \E k \in DOMAIN cameras :
        /\ now = 0
        /\ 0 \in DOMAIN cameras[k].cameraBuffers
        /\ cameras[k].sentCommands # <<>>
        /\ \E i \in 1..Len(wire) :
              /\ wire[i].cam = k
              /\ commands[wire[i].cmd].msgType = MSGTYPE_COMMAND
              /\ wire[i].cmd \notin Held(cameras[k])

\* controller state r differs from the present one in the Camera record at address
\* k at most
OnlyCamera(k, r) ==
    /\ DOMAIN r.cameras = DOMAIN cameras
    /\ r.cameraCount = cameraCount
    /\ \A j \in DOMAIN cameras \ {k} : r.cameras[j] = cameras[j]

\* C37: an ACK, COMPLETE or ERROR frame whose source address is k changes only the
\* Camera record at address k, in onData as a whole and in its dispatch of the
\* parsed reply: every other camera, the set of addresses and cameraCount stay.
C37_OnlySourceCamera ==
    \A p \in ReplyFrames :
        LET v == FromPacket(p)
        IN  /\ OnlyCamera(v.source, OnDataResult(p))
            /\ OnlyCamera(v.source, Dispatch(ControllerCtx, v))

\* both cameras of the chain wait for an ACK, and the dispatch of the ACK frame of
\* camera 1 changes the record of camera 1
C37_Witness ==
    /\ \A k \in CameraAddrs : k \in DOMAIN cameras /\ cameras[k].sentCommands # <<>>
    /\ Dispatch(ControllerCtx, FromPacket(AckFrame)).cameras[1] # cameras[1]

\* C38: a start() called again before the 'open' event of an earlier start() has
\* been delivered is a no-op, it returns and leaves the controller as it is, and at
\* most one serial port is open and one set of listeners attached at any time.
C38_SecondStartNoOp ==
    /\ controller.serialports <= 1
    /\ controller.handlerSets <= 1
    /\ (controller.ZOOM_SETTINGS_INT # "undefined" /\ ~started) =>
          /\ StartResult.threw = "none"
          /\ StartResult.controller = controller

ZoomBuilders == {"cmdCameraZoomStop", "cmdCameraZoomIn", "cmdCameraZoomOut"}
\* step requests i and j that must not share a frame: one is for zoom and the other
\* for focus, or both are zoom in or zoom out and differ in direction or in a speed
\* of 0..7
DistinctRequests(i, j) ==
    \/ (i.builder \in ZoomBuilders) # (j.builder \in ZoomBuilders)
    \/ /\ {i.builder, j.builder} \subseteq {"cmdCameraZoomIn", "cmdCameraZoomOut"}
       /\ {i.speed, j.speed} \subseteq 0..7
       /\ i.builder # j.builder \/ i.speed # j.speed

\* C39: the step builders give a distinct frame for each distinct request to one
\* recipient: a focus stop, far or near frame differs from every zoom stop, in or
\* out frame, and the zoom frames of two different (direction, speed) pairs differ.
C39_StepFramesDistinct ==
    call.fn = "step" =>
        \A j \in StepInputs :
            DistinctRequests(call.arg, j) => call.result.packet # ToPacket(StepBuild(j))

\* C40: a Command made with new Command(opts) has every field the caller gave in
\* opts, has the default in every field the caller left out, and has its broadcast
\* flag set exactly when its recipient is -1.
C40_ConstructorKeepsOptions ==
    call.fn = "new" =>
        /\ \A key \in OptKeys :
              call.result[key] = (IF key \in DOMAIN call.arg THEN call.arg[key]
                                  ELSE Defaults[key])
        /\ call.result.broadcast <=> (call.result.recipient = -1)
====
